---- MODULE Spec2Model ----
(***************************************************************************)
(* Model of markdown2html.py: the command-line wrapper, the top-level      *)
(* dispatcher loop of convert_markdown_to_html, the block handlers         *)
(* parse_heading, parse_list and parse_paragraphs, and the inline          *)
(* translator process_text.                                                *)
(*                                                                         *)
(* Text is a sequence of one-character strings, so that startswith, strip, *)
(* slicing and the regular expressions are computed character by character *)
(* as Python computes them.  `index` is 0-based as in the program;         *)
(* lines[index] of the program is lines[index + 1] here.                   *)
(***************************************************************************)
EXTENDS Integers, Sequences, FiniteSets, TLC

VARIABLES
    corpus,       \* which set of input files the run draws its file from
    argc,         \* len(sys.argv): the program name plus the arguments
    inputExists,  \* os.path.exists(input_file)
    outFile,      \* the output path: "absent", "old" (exists, untouched) or "open" (opened 'w')
    errStream,    \* what was printed to sys.stderr: "", "usage" or "missing"
    exitStatus,   \* the status given to sys.exit, -1 while the process runs
    pc,           \* position of the process: "start", "scan", "break", "exited", "off"
    lines,        \* md_file.readlines(): raw lines, each with its line terminator
    index,        \* the dispatcher's loop variable
    out,          \* the strings written to html_file, one element per output item
    last,         \* history: the dispatcher branch taken last and the state it started from
    paraAt,       \* history: Len(out) when the paragraph branch was entered, -1 before
    run,          \* 1 for a conversion of a Markdown file, 2 for a conversion of run 1's output
    firstOut,     \* history: the output of run 1 (the input of run 2)
    frag,         \* the argument `text` of a direct call of process_text
    translated,   \* the value that call returned
    ipc           \* position of that call: "idle", "call" or "done"

vars == <<corpus, argc, inputExists, outFile, errStream, exitStatus, pc, lines, index, out,
          last, paraAt, run, firstOut, frag, translated, ipc>>

progVars == <<corpus, argc, inputExists, outFile, errStream, exitStatus, pc, lines, index, out,
              last, paraAt, run, firstOut>>

inlineVars == <<frag, translated, ipc>>

-----------------------------------------------------------------------------
(* Bounds of the model.                                                    *)

MaxLines == 3        \* lines of an input file of the "lists" corpus
HeadLines == 2       \* lines of an input file of the "headings" corpus
ParaLines == 4       \* lines of an input file of the "paras" corpus
MaxHashes == 7       \* leading '#' characters of a heading line
MaxTokens == 4       \* tokens of a fragment given to process_text directly
DigestLen == 2       \* hexadecimal digits kept of a digest

-----------------------------------------------------------------------------
(* Characters and strings.                                                 *)

NL == "\n"

\* The whitespace characters of str.strip() and of \s that occur in the model.
IsSpace(c) == c \in {" ", "\t", NL}

\* \d
IsDigit(c) == c \in {"0", "1", "2", "3", "4", "5", "6", "7", "8", "9"}

\* s[i:] of Python with a 1-based first position i
From(s, i) == IF i > Len(s) THEN <<>> ELSE SubSeq(s, i, Len(s))

\* s.startswith(p), and the same test at position i
HasAt(s, i, p) ==
    /\ i >= 1
    /\ i + Len(p) - 1 <= Len(s)
    /\ \A k \in 1..Len(p) : s[i + k - 1] = p[k]

StartsWith(s, p) == HasAt(s, 1, p)

RECURSIVE LStrip(_)
LStrip(s) == IF s # <<>> /\ IsSpace(Head(s)) THEN LStrip(Tail(s)) ELSE s

RECURSIVE RStrip(_)
RStrip(s) ==
    IF s # <<>> /\ IsSpace(s[Len(s)]) THEN RStrip(SubSeq(s, 1, Len(s) - 1)) ELSE s

\* str.strip()
Strip(s) == RStrip(LStrip(s))

\* "sep".join(parts)
RECURSIVE Join(_, _)
Join(parts, sep) ==
    IF parts = <<>> THEN <<>>
    ELSE IF Len(parts) = 1 THEN parts[1]
    ELSE parts[1] \o sep \o Join(Tail(parts), sep)

\* f"{level}" for the levels parse_heading formats
DigitChar(n) == <<"0", "1", "2", "3", "4", "5", "6", "7", "8", "9">>[n + 1]

-----------------------------------------------------------------------------
(* hashlib.md5(...).hexdigest(): a deterministic function from the bytes   *)
(* of its argument to lowercase hexadecimal digits.  The model keeps       *)
(* DigestLen digits of a polynomial hash of the character codes.           *)

CharCode(c) ==
    CASE c = NL -> 10 [] c = " " -> 32 [] c = "#" -> 35 [] c = "(" -> 40
      [] c = ")" -> 41 [] c = "*" -> 42 [] c = "-" -> 45 [] c = "." -> 46
      [] c = "/" -> 47 [] c = "1" -> 49 [] c = "2" -> 50 [] c = "<" -> 60
      [] c = ">" -> 62 [] c = "C" -> 67 [] c = "[" -> 91 [] c = "]" -> 93
      [] c = "_" -> 95 [] c = "a" -> 97 [] c = "b" -> 98 [] c = "c" -> 99
      [] c = "e" -> 101 [] c = "m" -> 109
      [] OTHER -> 63

HexChar(d) ==
    <<"0", "1", "2", "3", "4", "5", "6", "7", "8", "9", "a", "b", "c", "d", "e", "f">>[d + 1]

RECURSIVE HashFold(_, _)
HashFold(s, h) ==
    IF s = <<>> THEN h
    ELSE HashFold(Tail(s), (h * 31 + CharCode(Head(s))) % (16 ^ DigestLen))

RECURSIVE HexDigits(_, _)
HexDigits(h, n) ==
    IF n = 0 THEN <<>> ELSE HexDigits(h \div 16, n - 1) \o <<HexChar(h % 16)>>

MD5Hex(s) == HexDigits(HashFold(s, 196), DigestLen)

\* m.group(1).replace('c', '').replace('C', '')
RECURSIVE RemoveC(_)
RemoveC(s) ==
    IF s = <<>> THEN <<>>
    ELSE IF Head(s) \in {"c", "C"} THEN RemoveC(Tail(s))
    ELSE <<Head(s)>> \o RemoveC(Tail(s))

-----------------------------------------------------------------------------
(* process_text: four re.sub calls, each over the result of the one before. *)

OpenDelim(kind) ==
    CASE kind = "bold" -> <<"*", "*">>
      [] kind = "em" -> <<"_", "_">>
      [] kind = "digest" -> <<"[", "[">>
      [] kind = "strip" -> <<"(", "(">>

CloseDelim(kind) ==
    CASE kind = "bold" -> <<"*", "*">>
      [] kind = "em" -> <<"_", "_">>
      [] kind = "digest" -> <<"]", "]">>
      [] kind = "strip" -> <<")", ")">>

\* The replacement of one match, from its group 1.
Replacement(kind, g) ==
    CASE kind = "bold" -> <<"<", "b", ">">> \o g \o <<"<", "/", "b", ">">>
      [] kind = "em" -> <<"<", "e", "m", ">">> \o g \o <<"<", "/", "e", "m", ">">>
      [] kind = "digest" -> MD5Hex(g)
      [] kind = "strip" -> RemoveC(g)

\* (.*?) followed by the closing delimiter, tried from position j: the lazy
\* quantifier takes one more character at a time, '.' matches no newline.
\* The position of the closing delimiter, 0 when the match fails.
RECURSIVE LazyEnd(_, _, _)
LazyEnd(s, j, close) ==
    IF HasAt(s, j, close) THEN j
    ELSE IF j > Len(s) \/ s[j] = NL THEN 0
    ELSE LazyEnd(s, j + 1, close)

\* re.sub(pattern, repl, s) from position pos on: the leftmost match is
\* replaced and the scan resumes after it; a position with no match is copied.
RECURSIVE SubFrom(_, _, _)
SubFrom(kind, s, pos) ==
    IF pos > Len(s) THEN <<>>
    ELSE LET open == OpenDelim(kind)
             close == CloseDelim(kind)
             e == IF HasAt(s, pos, open) THEN LazyEnd(s, pos + Len(open), close) ELSE 0
         IN  IF e # 0
             THEN Replacement(kind, SubSeq(s, pos + Len(open), e - 1))
                      \o SubFrom(kind, s, e + Len(close))
             ELSE <<s[pos]>> \o SubFrom(kind, s, pos + 1)

Substitute(kind, s) == SubFrom(kind, s, 1)

process_text_digest_first(text) ==
    LET t1 == Substitute("digest", text)
        t2 == Substitute("bold", t1)
        t3 == Substitute("em", t2)
        t4 == Substitute("strip", t3)
    IN  t4

process_text(text) ==
    LET t1 == Substitute("bold", text)
        t2 == Substitute("em", t1)
        t3 == Substitute("digest", t2)
        t4 == Substitute("strip", t3)
    IN  t4

-----------------------------------------------------------------------------
(* parse_heading                                                           *)

\* The while loop of parse_heading: level counts the '#' characters removed.
RECURSIVE StripHashes(_, _)
StripHashes(line, level) ==
    IF StartsWith(line, <<"#">>) THEN StripHashes(Tail(line), level + 1)
    ELSE [level |-> level, line |-> line]

HeadingTag(level, text) ==
    <<"<", "h", DigitChar(level), ">">> \o text \o <<"<", "/", "h", DigitChar(level), ">">>

parse_heading_upto7(line) ==
    LET r == StripHashes(line, 0)
    IN  IF 1 <= r.level /\ r.level <= 7
        THEN [none |-> FALSE, html |-> HeadingTag(r.level, Strip(r.line))]
        ELSE [none |-> TRUE, html |-> <<>>]

\* [none |-> TRUE] is None; otherwise html is the string returned.
parse_heading(line) ==
    LET r == StripHashes(line, 0)
    IN  IF 1 <= r.level /\ r.level <= 6
        THEN [none |-> FALSE, html |-> HeadingTag(r.level, Strip(r.line))]
        ELSE [none |-> TRUE, html |-> <<>>]

-----------------------------------------------------------------------------
(* parse_list                                                              *)

\* The number of characters \d+ matches from position i (0: no match).
RECURSIVE DigitRun(_, _)
DigitRun(s, i) ==
    IF i <= Len(s) /\ IsDigit(s[i]) THEN 1 + DigitRun(s, i + 1) ELSE 0

\* re.match(r'^\d+\.\s', s)
MatchOrdered(s) ==
    LET d == DigitRun(s, 1)
    IN  /\ d >= 1
        /\ d + 2 <= Len(s)
        /\ s[d + 1] = "."
        /\ IsSpace(s[d + 2])

\* s.split('.', 1)[1], for s holding a '.'
RECURSIVE AfterFirstDot(_)
AfterFirstDot(s) ==
    IF s = <<>> THEN <<>>
    ELSE IF Head(s) = "." THEN Tail(s)
    ELSE AfterFirstDot(Tail(s))

OpenTag(list_type) == <<"<">> \o list_type \o <<">">>
CloseTag(list_type) == <<"<", "/">> \o list_type \o <<">">>
UL == <<"u", "l">>
OL == <<"o", "l">>
Dash == <<"-", " ">>
Star == <<"*", " ">>

ListItem(item) == <<"<", "l", "i", ">">> \o process_text(item) \o <<"<", "/", "l", "i", ">">>

\* The while loop of parse_list; i is the 0-based index.
RECURSIVE ListLoop(_, _, _, _)
ListLoop(ls, i, list_type, html_lines) ==
    IF i < Len(ls)
       /\ (StartsWith(ls[i + 1], Dash) \/ StartsWith(ls[i + 1], Star)
             \/ MatchOrdered(ls[i + 1]))
    THEN LET l == ls[i + 1]
             html == IF list_type = UL /\ StartsWith(l, Dash)
                         THEN Append(html_lines, ListItem(Strip(From(l, 3))))
                     ELSE IF list_type = OL /\ MatchOrdered(l)
                         THEN Append(html_lines, ListItem(Strip(AfterFirstDot(l))))
                     ELSE html_lines
         IN  ListLoop(ls, i + 1, list_type, html)
    ELSE [html |-> Append(html_lines, CloseTag(list_type)), index |-> i]

parse_list(ls, i, list_type) == ListLoop(ls, i, list_type, <<OpenTag(list_type)>>)

-----------------------------------------------------------------------------
(* parse_paragraphs                                                        *)

ParagraphElemSpaceJoined(paragraph) ==
    <<"<", "p", ">", NL>> \o process_text(Join(paragraph, <<" ">>))
        \o <<NL, "<", "/", "p", ">">>

ParagraphElem(paragraph) ==
    <<"<", "p", ">", NL>> \o process_text(Join(paragraph, <<NL>>))
        \o <<NL, "<", "/", "p", ">">>

\* The while loop of parse_paragraphs and the flush that follows it.
RECURSIVE ParagraphLoop(_, _, _, _)
ParagraphLoop(ls, i, html_lines, paragraph) ==
    IF i < Len(ls)
    THEN LET line == Strip(ls[i + 1])
         IN  IF line # <<>>
             THEN ParagraphLoop(ls, i + 1, html_lines, Append(paragraph, line))
             ELSE IF paragraph # <<>>
                 THEN ParagraphLoop(ls, i + 1,
                                    Append(html_lines, ParagraphElem(paragraph)), <<>>)
                 ELSE ParagraphLoop(ls, i + 1, html_lines, paragraph)
    ELSE [html |-> IF paragraph # <<>>
                       THEN Append(html_lines, ParagraphElem(paragraph))
                       ELSE html_lines,
          index |-> i]

\* The loop alone, without the flush of the last paragraph.
RECURSIVE LoopNoFlush(_, _, _, _)
LoopNoFlush(ls, i, html_lines, paragraph) ==
    IF i < Len(ls)
    THEN LET line == Strip(ls[i + 1])
         IN  IF line # <<>>
             THEN LoopNoFlush(ls, i + 1, html_lines, Append(paragraph, line))
             ELSE IF paragraph # <<>>
                 THEN LoopNoFlush(ls, i + 1,
                                  Append(html_lines, ParagraphElem(paragraph)), <<>>)
                 ELSE LoopNoFlush(ls, i + 1, html_lines, paragraph)
    ELSE [html |-> html_lines, index |-> i]

parse_paragraphs_no_flush(ls) == LoopNoFlush(ls, 0, <<>>, <<>>)

parse_paragraphs(ls) == ParagraphLoop(ls, 0, <<>>, <<>>)

-----------------------------------------------------------------------------
(* The files.                                                              *)

Hashes(n) == [k \in 1..n |-> "#"]

ListsPool ==
    { <<"-", " ", "a">>,
      <<"1", ".", " ", "b">>,
      <<"*", " ", "a">>,
      <<" ", "-", " ", "a">>,
      <<>>,
      <<" ">>,
      <<"p">>,
      <<"#", " ", "h">>,
      <<"-", " ", "_", "_", "c", "_", "_">>,
      <<"(", "(", "c", ")", ")", " ", "q">>,
      <<"2", ".">> }

HeadingsPool ==
    { Hashes(n) \o body : n \in 1..MaxHashes, body \in { <<" ", "a", " ">>, <<"a">> } }
        \cup { <<" ", "#", "#", "a">>, <<"-", " ", "a">>, <<"1", ".", " ", "b">>, <<>>, <<"p">> }

ParasPool ==
    { <<"a">>, <<" ", "b", " ">>, <<>>, <<" ">>, <<"#", " ", "c">>, <<"-", " ", "d">>,
      <<"1", ".", " ", "e">>, <<"(", "(", "c", ")", ")">> }

Pool(c) ==
    CASE c = "lists" -> ListsPool
      [] c = "headings" -> HeadingsPool
      [] c = "paras" -> ParasPool

DocLen(c) ==
    CASE c = "lists" -> MaxLines
      [] c = "headings" -> HeadLines
      [] c = "paras" -> ParaLines

\* The files of a corpus as readlines() returns them: every line ends in a newline.
Docs(c) ==
    UNION { [1..n -> { l \o <<NL>> : l \in Pool(c) }] : n \in 0..DocLen(c) }

\* The output recorded: the first OutWindow strings written.  No conversion
\* that ends writes as many.
OutWindow == 3 * (MaxLines + HeadLines + ParaLines) + 3

Take(s, n) == IF Len(s) <= n THEN s ELSE SubSeq(s, 1, n)

\* html_file.write(html_line + '\n')
WriteLine(o, s) == Take(Append(o, s), OutWindow)

\* html_file.write("\n".join(html_lines) + '\n')
WriteJoined(o, html_lines) ==
    IF html_lines = <<>> THEN Take(Append(o, <<>>), OutWindow)
    ELSE Take(o \o html_lines, OutWindow)

\* The text of the output file.
RECURSIVE FileText(_)
FileText(o) == IF o = <<>> THEN <<>> ELSE Head(o) \o <<NL>> \o FileText(Tail(o))

\* readlines() of a text: the lines, each with its newline.
RECURSIVE SplitLines(_, _)
SplitLines(text, cur) ==
    IF text = <<>> THEN (IF cur = <<>> THEN <<>> ELSE <<cur>>)
    ELSE IF Head(text) = NL THEN <<Append(cur, NL)>> \o SplitLines(Tail(text), <<>>)
    ELSE SplitLines(Tail(text), Append(cur, Head(text)))

ReadLines(o) == SplitLines(FileText(o), <<>>)

-----------------------------------------------------------------------------
(* The process.                                                            *)

NoStep == [op |-> "none", index |-> 0, outLen |-> 0, tick |-> 0]

InitProgram(c) ==
    /\ corpus = c
    /\ argc \in 1..3
    /\ inputExists \in BOOLEAN
    /\ outFile \in {"absent", "old"}
    /\ errStream = ""
    /\ exitStatus = -1
    /\ pc = "start"
    /\ lines = <<>>
    /\ index = 0
    /\ out = <<>>
    /\ last = NoStep
    /\ paraAt = -1
    /\ run = 1
    /\ firstOut = <<>>
    /\ frag = <<>>
    /\ translated = <<>>
    /\ ipc = "idle"

Init == InitProgram("lists")

InitHeadings == InitProgram("headings")

InitParas == InitProgram("paras")

\* if len(sys.argv) < 3: usage, exit 1
UsageError ==
    /\ pc = "start"
    /\ argc < 3
    /\ errStream' = "usage"
    /\ exitStatus' = 1
    /\ pc' = "exited"
    /\ UNCHANGED <<corpus, argc, inputExists, outFile, lines, index, out, last, paraAt,
                   run, firstOut, inlineVars>>

\* if not os.path.exists(input_file): Missing, exit 1
MissingInput ==
    /\ pc = "start"
    /\ ~(argc < 3)
    /\ ~inputExists
    /\ errStream' = "missing"
    /\ exitStatus' = 1
    /\ pc' = "exited"
    /\ UNCHANGED <<corpus, argc, inputExists, outFile, lines, index, out, last, paraAt,
                   run, firstOut, inlineVars>>

\* convert_markdown_to_html up to the loop: the input is read, the output opened.
StartConversion ==
    /\ pc = "start"
    /\ ~(argc < 3)
    /\ inputExists
    /\ \E doc \in Docs(corpus) : lines' = doc
    /\ outFile' = "open"
    /\ out' = <<>>
    /\ index' = 0
    /\ pc' = "scan"
    /\ UNCHANGED <<corpus, argc, inputExists, errStream, exitStatus, last, paraAt, run,
                   firstOut, inlineVars>>

AtLine == pc = "scan" /\ index < Len(lines)

\* line = lines[index].strip()
Line == Strip(lines[index + 1])

\* tick: the parity of the number of loop iterations taken.
Step(op) == [op |-> op, index |-> index, outLen |-> Len(out), tick |-> 1 - last.tick]

\* if line.startswith("#")
Heading ==
    /\ AtLine
    /\ StartsWith(Line, <<"#">>)
    /\ LET html_line == parse_heading(Line)
       IN  out' = IF ~html_line.none /\ html_line.html # <<>>
                      THEN WriteLine(out, html_line.html)
                      ELSE out
    /\ index' = index + 1
    /\ last' = Step("heading")
    /\ UNCHANGED <<corpus, argc, inputExists, outFile, errStream, exitStatus, pc, lines,
                   paraAt, run, firstOut, inlineVars>>

\* elif line.startswith("- ")
UnorderedList ==
    /\ AtLine
    /\ ~StartsWith(Line, <<"#">>)
    /\ StartsWith(Line, Dash)
    /\ LET r == parse_list(lines, index, UL)
       IN  /\ out' = WriteJoined(out, r.html)
           /\ index' = r.index
    /\ last' = Step("ul")
    /\ UNCHANGED <<corpus, argc, inputExists, outFile, errStream, exitStatus, pc, lines,
                   paraAt, run, firstOut, inlineVars>>

\* elif re.match(r'^\d+\.\s', line)
OrderedList ==
    /\ AtLine
    /\ ~StartsWith(Line, <<"#">>)
    /\ ~StartsWith(Line, Dash)
    /\ MatchOrdered(Line)
    /\ LET r == parse_list(lines, index, OL)
       IN  /\ out' = WriteJoined(out, r.html)
           /\ index' = r.index
    /\ last' = Step("ol")
    /\ UNCHANGED <<corpus, argc, inputExists, outFile, errStream, exitStatus, pc, lines,
                   paraAt, run, firstOut, inlineVars>>

\* elif line == ""
BlankLine ==
    /\ AtLine
    /\ ~StartsWith(Line, <<"#">>)
    /\ ~StartsWith(Line, Dash)
    /\ ~MatchOrdered(Line)
    /\ Line = <<>>
    /\ index' = index + 1
    /\ last' = Step("blank")
    /\ UNCHANGED <<corpus, argc, inputExists, outFile, errStream, exitStatus, pc, lines,
                   out, paraAt, run, firstOut, inlineVars>>

\* The paragraph branch without the break: the loop goes on after it.
ParagraphsNoBreak ==
    /\ AtLine
    /\ ~StartsWith(Line, <<"#">>)
    /\ ~StartsWith(Line, Dash)
    /\ ~MatchOrdered(Line)
    /\ Line # <<>>
    /\ LET r == parse_paragraphs(<<lines[index + 1]>>)
       IN  /\ out' = WriteJoined(out, r.html)
           /\ index' = index + r.index
    /\ paraAt' = IF paraAt = -1 THEN Len(out) ELSE paraAt
    /\ last' = Step("para")
    /\ UNCHANGED <<corpus, argc, inputExists, outFile, errStream, exitStatus, pc, lines,
                   run, firstOut, inlineVars>>

\* else: parse_paragraphs(lines[index:]), write, break
Paragraphs ==
    /\ AtLine
    /\ ~StartsWith(Line, <<"#">>)
    /\ ~StartsWith(Line, Dash)
    /\ ~MatchOrdered(Line)
    /\ Line # <<>>
    /\ LET r == parse_paragraphs(From(lines, index + 1))
       IN  /\ out' = WriteJoined(out, r.html)
           /\ index' = r.index
    /\ pc' = "break"
    /\ paraAt' = Len(out)
    /\ last' = Step("para")
    /\ UNCHANGED <<corpus, argc, inputExists, outFile, errStream, exitStatus, lines, run,
                   firstOut, inlineVars>>

\* The loop has ended (its condition is false, or the break): sys.exit(0)
ExitSuccess ==
    /\ \/ pc = "scan" /\ ~(index < Len(lines))
       \/ pc = "break"
    /\ exitStatus' = 0
    /\ pc' = "exited"
    /\ UNCHANGED <<corpus, argc, inputExists, outFile, errStream, lines, index, out,
                   last, paraAt, run, firstOut, inlineVars>>

\* The program run again, on the file the first run wrote.
Rerun ==
    /\ pc = "exited"
    /\ exitStatus = 0
    /\ run = 1
    /\ run' = 2
    /\ firstOut' = out
    /\ lines' = ReadLines(out)
    /\ out' = <<>>
    /\ index' = 0
    /\ exitStatus' = -1
    /\ pc' = "scan"
    /\ last' = NoStep
    /\ paraAt' = -1
    /\ UNCHANGED <<corpus, argc, inputExists, outFile, errStream, inlineVars>>

Next ==
    \/ UsageError
    \/ MissingInput
    \/ StartConversion
    \/ Heading
    \/ UnorderedList
    \/ OrderedList
    \/ BlankLine
    \/ Paragraphs
    \/ ExitSuccess
    \/ Rerun

Spec == Init /\ [][Next]_vars

SpecHeadings == InitHeadings /\ [][Next]_vars

SpecParas == InitParas /\ [][Next]_vars

\* The process has a step to take: the disjunction of the guards of the
\* actions of Next.  Every step changes last.tick, pc or run, so this is
\* ENABLED <<Next>>_vars.
Running ==
    \/ pc = "start"
    \/ pc = "scan"
    \/ pc = "break"
    \/ pc = "exited" /\ exitStatus = 0 /\ run = 1

\* A sequential process takes its next step whenever it has one: weak
\* fairness of Next, written out with Running for ENABLED <<Next>>_vars, and
\* weak fairness of the exit, which that implies.
FairSpec ==
    /\ Init
    /\ [][Next]_vars
    /\ WF_vars(ExitSuccess)
    /\ ([]<>(~Running) \/ []<><<Next>>_vars)

-----------------------------------------------------------------------------
(* A direct call of process_text on a fragment built from tokens.          *)

Tokens ==
    { <<"*", "*">>, <<"_", "_">>, <<"[", "[">>, <<"]", "]">>, <<"(", "(">>, <<")", ")">>,
      <<"a">>, <<"c">>, <<NL>> }

RECURSIVE Concat(_)
Concat(ss) == IF ss = <<>> THEN <<>> ELSE Head(ss) \o Concat(Tail(ss))

Fragments == { Concat(ts) : ts \in UNION { [1..n -> Tokens] : n \in 0..MaxTokens } }

InitInline ==
    /\ corpus = "none"
    /\ argc = 0 /\ inputExists = FALSE /\ outFile = "absent" /\ errStream = ""
    /\ exitStatus = -1 /\ pc = "off" /\ lines = <<>> /\ index = 0 /\ out = <<>>
    /\ last = [op |-> "none", index |-> 0, outLen |-> 0, tick |-> 0]
    /\ paraAt = -1 /\ run = 0 /\ firstOut = <<>>
    /\ frag \in Fragments
    /\ translated = <<>>
    /\ ipc = "call"

Translate ==
    /\ ipc = "call"
    /\ translated' = process_text(frag)
    /\ ipc' = "done"
    /\ UNCHANGED <<frag, progVars>>

NextInline == Translate

SpecInline == InitInline /\ [][NextInline]_vars

-----------------------------------------------------------------------------
(* Vocabulary of the properties.                                           *)

\* The strings the last dispatcher step wrote.
Emitted == SubSeq(out, last.outLen + 1, Len(out))

\* The raw line the last dispatcher step started at, and the same line trimmed.
LastRaw == lines[last.index + 1]
LastLine == Strip(LastRaw)

Dispatched == last.op # "none"

\* The number of consecutive '#' characters a string starts with.
LeadingHashes(s) == Cardinality({ k \in 1..Len(s) : \A j \in 1..k : s[j] = "#" })

HasNewline(s) == \E k \in 1..Len(s) : s[k] = NL

NonBlank(l) == \E k \in 1..Len(l) : ~IsSpace(l[k])

\* s.split("\n")
RECURSIVE SplitNL(_, _)
SplitNL(s, cur) ==
    IF s = <<>> THEN <<cur>>
    ELSE IF Head(s) = NL THEN <<cur>> \o SplitNL(Tail(s), <<>>)
    ELSE SplitNL(Tail(s), Append(cur, Head(s)))

RECURSIVE SortedSeq(_)
SortedSeq(S) ==
    IF S = {} THEN <<>>
    ELSE LET m == CHOOSE x \in S : \A y \in S : x <= y
         IN  <<m>> \o SortedSeq(S \ {m})

\* The maximal runs of consecutive non-blank lines of ls, in order.
RunStarts(ls) ==
    { i \in 1..Len(ls) : NonBlank(ls[i]) /\ (i = 1 \/ ~NonBlank(ls[i - 1])) }

RunEnd(ls, i) ==
    CHOOSE j \in i..Len(ls) :
        /\ \A k \in i..j : NonBlank(ls[k])
        /\ j = Len(ls) \/ ~NonBlank(ls[j + 1])

Runs(ls) ==
    LET starts == SortedSeq(RunStarts(ls))
    IN  [n \in 1..Len(starts) |-> SubSeq(ls, starts[n], RunEnd(ls, starts[n]))]

P_Open == <<"<", "p", ">">>
P_Close == <<"<", "/", "p", ">">>

IsParagraphElem(e) ==
    /\ Len(e) >= 8
    /\ StartsWith(e, P_Open \o <<NL>>)
    /\ HasAt(e, Len(e) - 4, <<NL>> \o P_Close)

\* The text lines between <p> and </p> of a paragraph element.
BodyLines(e) == SplitNL(SubSeq(e, 5, Len(e) - 5), <<>>)

IsBlockTag(e) ==
    \/ \E n \in 1..6 : StartsWith(e, <<"<", "h", DigitChar(n), ">">>)
    \/ StartsWith(e, <<"<", "u", "l", ">">>)
    \/ StartsWith(e, <<"<", "o", "l", ">">>)
    \/ StartsWith(e, <<"<", "l", "i", ">">>)

LooksLikeBlock(l) ==
    \/ StartsWith(Strip(l), <<"#">>)
    \/ StartsWith(Strip(l), Dash)
    \/ MatchOrdered(Strip(l))

-----------------------------------------------------------------------------
(* C1.  A line the dispatcher classifies as a heading (the trimmed line     *)
(* starts with '#'), with n leading '#' characters: for 1 <= n <= 6 exactly *)
(* one output line <h{n}>{text}</h{n}> is written, text being the rest of   *)
(* the line trimmed (no space is needed after the markers); for n >= 7      *)
(* nothing is written, the line does not become paragraph text, and the     *)
(* scan goes on with the next line, still detecting blocks.                 *)
C1_HeadingLine ==
    /\ Dispatched => (last.op = "heading" <=> StartsWith(LastLine, <<"#">>))
    /\ last.op = "heading" =>
           LET n == LeadingHashes(LastLine)
               text == Strip(From(LastLine, n + 1))
           IN  /\ n >= 1
               /\ index = last.index + 1
               /\ pc \in {"scan", "exited"}
               /\ paraAt = -1
               /\ n <= 6 =>
                      /\ Emitted = << <<"<", "h", DigitChar(n), ">">> \o text
                                          \o <<"<", "/", "h", DigitChar(n), ">">> >>
                      /\ ~HasNewline(Emitted[1])
               /\ n >= 7 => Emitted = <<>>

\* A heading of level 7 or more has just been dropped, after a heading that
\* was written, and a further line is still to be scanned.
C1_Witness ==
    /\ last.op = "heading"
    /\ LeadingHashes(LastLine) >= 7
    /\ Len(out) = 1
    /\ pc = "scan"
    /\ run = 1

-----------------------------------------------------------------------------
(* C2.  Paragraph mode is terminal: from the first line that is not blank, *)
(* not a heading and not a list line, every remaining line is consumed as  *)
(* paragraph text (also a line starting with '#', '- ' or digits '. '), no *)
(* heading or list tag is written after that point, and the dispatcher     *)
(* does not return to block detection.                                     *)
C2_ParagraphTerminal ==
    paraAt >= 0 =>
        LET rest == From(lines, last.index + 1)
            kept == SelectSeq(rest, NonBlank)
            paras == SubSeq(out, paraAt + 1, Len(out))
            body == Concat([k \in 1..Len(paras) |-> BodyLines(paras[k])])
        IN  /\ pc \in {"break", "exited"}
            /\ last.op = "para"
            /\ paraAt = last.outLen
            /\ ~LooksLikeBlock(rest[1]) /\ NonBlank(rest[1])
            /\ \A k \in 1..Len(paras) : IsParagraphElem(paras[k]) /\ ~IsBlockTag(paras[k])
            /\ body = [k \in 1..Len(kept) |-> process_text(Strip(kept[k]))]

\* Paragraph mode was entered and a later line looks like a heading or a list line.
C2_Witness ==
    /\ paraAt >= 0
    /\ pc = "exited"
    /\ run = 1
    /\ \E k \in (last.index + 2)..Len(lines) : LooksLikeBlock(lines[k])

-----------------------------------------------------------------------------
(* C5.  The paragraph handler writes exactly one <p>\n...\n</p> element for *)
(* every maximal run of consecutive non-blank lines it is given, in order: *)
(* blank lines separate runs and produce nothing, the lines of a run are   *)
(* joined by a newline, and the last run is written also when no blank     *)
(* line follows it.                                                        *)
ParagraphOf(r) ==
    P_Open \o <<NL>>
        \o process_text(Join([k \in 1..Len(r) |-> Strip(r[k])], <<NL>>))
        \o <<NL>> \o P_Close

C5_OneParagraphPerRun ==
    last.op = "para" =>
        LET given == From(lines, last.index + 1)
            runs == Runs(given)
        IN  /\ Len(Emitted) = Len(runs)
            /\ Emitted = [n \in 1..Len(runs) |-> ParagraphOf(runs[n])]
            /\ \A n \in 1..Len(runs) :
                   Len(BodyLines(Emitted[n])) = Len(runs[n])

\* Two paragraphs were written, one of them of two lines, the last one with
\* no blank line after it.
C5_Witness ==
    /\ last.op = "para"
    /\ run = 1
    /\ Len(Emitted) = 2
    /\ \E n \in 1..2 : Len(BodyLines(Emitted[n])) = 2
    /\ NonBlank(lines[Len(lines)])

-----------------------------------------------------------------------------
(* Vocabulary of the list properties.                                      *)

LastKind == IF last.op = "ul" THEN UL ELSE OL

\* A qualifying line of a list kind: '- ' first, or digits, '.', whitespace first.
Qualifies(list_type, l) ==
    IF list_type = UL THEN StartsWith(l, Dash) ELSE MatchOrdered(l)

\* The 0-based index of the first line at or after i that does not qualify
\* (the number of lines when every line from i on qualifies).
FirstOther(ls, i, list_type) ==
    CHOOSE j \in i..Len(ls) :
        /\ \A k \in (i + 1)..j : Qualifies(list_type, ls[k])
        /\ j = Len(ls) \/ ~Qualifies(list_type, ls[j + 1])

ItemText(list_type, l) ==
    IF list_type = UL THEN Strip(From(l, 3)) ELSE Strip(AfterFirstDot(l))

IsItem(e) == StartsWith(e, <<"<", "l", "i", ">">>)

-----------------------------------------------------------------------------
(* C3.  In the list handler for kind K, the first line at or after the     *)
(* start index that is blank or is not a qualifying line of kind K ends    *)
(* the block without being consumed: the index returned is that line's     *)
(* index, so the dispatcher classifies the line next and it is not lost.   *)
C3_StopsAtFirstOther ==
    last.op \in {"ul", "ol"} => index = FirstOther(lines, last.index, LastKind)

-----------------------------------------------------------------------------
(* C4.  For a maximal run of k >= 1 consecutive qualifying lines of one    *)
(* list kind reached while detecting blocks, the output for the run is the *)
(* opening tag, then k lines <li>{item}</li> in input order, one per line  *)
(* of the run, then the closing tag; item is the text after the first two  *)
(* characters (unordered) or after the first '.' (ordered), trimmed and    *)
(* inline-translated.                                                      *)
C4_RunOutput ==
    (last.op \in {"ul", "ol"} /\ Qualifies(LastKind, LastRaw)) =>
        LET stop == FirstOther(lines, last.index, LastKind)
            items == [k \in 1..(stop - last.index) |->
                         <<"<", "l", "i", ">">>
                             \o process_text(ItemText(LastKind, lines[last.index + k]))
                             \o <<"<", "/", "l", "i", ">">>]
        IN  Emitted = <<OpenTag(LastKind)>> \o items \o <<CloseTag(LastKind)>>

-----------------------------------------------------------------------------
(* C10.  The conversion terminates: every call of the list handler made by *)
(* the dispatcher returns an index greater than the one it was called with *)
(* and writes at least one <li>, also for a list line with leading         *)
(* whitespace.                                                             *)
C10_ListCallAdvances ==
    last.op \in {"ul", "ol"} =>
        /\ index > last.index
        /\ \E k \in 1..Len(Emitted) : IsItem(Emitted[k])

-----------------------------------------------------------------------------
(* C6.  Zero or one argument: exit status 1, a usage message on the error  *)
(* stream, no file opened, created or modified.  Two arguments and no      *)
(* input file: exit status 1, 'Missing ...' on the error stream, the       *)
(* output file neither created nor modified.  Only when both checks pass   *)
(* is the output file opened for writing, and the run then ends with exit  *)
(* status 0.                                                               *)
C6_ErrorOutcomes ==
    /\ (pc = "exited" /\ argc < 3) =>
           exitStatus = 1 /\ errStream = "usage" /\ outFile # "open"
    /\ (pc = "exited" /\ argc >= 3 /\ ~inputExists) =>
           exitStatus = 1 /\ errStream = "missing" /\ outFile # "open"
    /\ outFile = "open" => (argc >= 3 /\ inputExists /\ errStream = "")
    /\ (pc = "exited" /\ argc >= 3 /\ inputExists) => exitStatus = 0

C6_CommandLine ==
    /\ []C6_ErrorOutcomes
    /\ (pc = "scan" /\ run = 1) ~> (pc = "exited" /\ exitStatus = 0)

-----------------------------------------------------------------------------
(* C7.  Running the translator on the HTML output of a previous            *)
(* conversion, when that output holds no Markdown markers, is a no-op: the *)
(* second run's output is identical to its input.                          *)

HasPair(l, d) == \E k \in 1..Len(l) : HasAt(l, k, d)

\* No line starts like a heading or a list line, none holds an inline delimiter.
NoMarkers(o) ==
    \A l \in { ReadLines(o)[k] : k \in 1..Len(ReadLines(o)) } :
        /\ ~LooksLikeBlock(l)
        /\ ~StartsWith(Strip(l), Star)
        /\ \A kind \in {"bold", "em", "digest", "strip"} :
               ~HasPair(l, OpenDelim(kind)) /\ ~HasPair(l, CloseDelim(kind))

SecondRunDone == run = 2 /\ pc = "exited" /\ exitStatus = 0

C7_SecondRunNoOp ==
    (SecondRunDone /\ NoMarkers(firstOut)) => FileText(out) = FileText(firstOut)

\* As amended: the second run is a no-op only on an empty file.  Otherwise it
\* takes every line as paragraph text: its output is the non-blank lines of its
\* input, trimmed, in order, every maximal run of them between a <p> line and a
\* </p> line; the text of the lines is not changed.
Wrapped(r) == <<P_Open>> \o [k \in 1..Len(r) |-> Strip(r[k])] \o <<P_Close>>

C7_SecondRunWraps ==
    (SecondRunDone /\ NoMarkers(firstOut)) =>
        LET input == ReadLines(firstOut)
            runs == Runs(input)
            output == ReadLines(out)
        IN  /\ [k \in 1..Len(output) |-> Strip(output[k])]
                   = Concat([n \in 1..Len(runs) |-> Wrapped(runs[n])])
            /\ \A k \in 1..Len(output) : output[k] = Strip(output[k]) \o <<NL>>
            /\ (FileText(out) = FileText(firstOut)) <=> (firstOut = <<>>)

\* The second run has ended on a marker-free file that holds a heading and a list.
C7_Witness ==
    /\ SecondRunDone
    /\ NoMarkers(firstOut)
    /\ \E k \in 1..Len(firstOut) : StartsWith(firstOut[k], <<"<", "h", "1", ">">>)
    /\ \E k \in 1..Len(firstOut) : IsItem(firstOut[k])

-----------------------------------------------------------------------------
(* C8.  Each inline substitution pairs an opening delimiter, scanning left *)
(* to right, with the nearest closing delimiter that follows it, so m      *)
(* disjoint pairs give m spans and never one span over two pairs; a        *)
(* fragment with no pair is left unchanged.                                *)

\* The position of the nearest closing delimiter at or after j, 0 if none.
NearestClose(s, j, close) ==
    LET at == { k \in j..Len(s) : HasAt(s, k, close) }
    IN  IF at = {} THEN 0 ELSE CHOOSE k \in at : \A m \in at : k <= m

RECURSIVE PairFrom(_, _, _)
PairFrom(kind, s, pos) ==
    IF pos > Len(s) THEN <<>>
    ELSE LET e == IF HasAt(s, pos, OpenDelim(kind))
                      THEN NearestClose(s, pos + 2, CloseDelim(kind))
                      ELSE 0
         IN  IF e # 0
             THEN Replacement(kind, SubSeq(s, pos + 2, e - 1)) \o PairFrom(kind, s, e + 2)
             ELSE <<s[pos]>> \o PairFrom(kind, s, pos + 1)

C8_NearestClosing ==
    ipc = "done" =>
        \A kind \in {"bold", "em", "digest", "strip"} :
            Substitute(kind, frag) = PairFrom(kind, frag, 1)

-----------------------------------------------------------------------------
(* C9.  The inline translator is the pipeline bold, emphasis, digest,      *)
(* strip, each stage over the whole output of the stage before and none    *)
(* run again: the result is strip(digest(emphasis(bold(t)))).  A [[...]]   *)
(* span around '**X**' digests '<b>X</b>'; a ((...)) span around a [[...]] *)
(* span removes 'c' and 'C' from the digest; markers that appear only      *)
(* after the strip stage stay as they are.                                 *)

Plain(t) == \A k \in 1..Len(t) : t[k] \in {"a", "c"}

Bold(x) == <<"*", "*">> \o x \o <<"*", "*">>
Digest(x) == <<"[", "[">> \o x \o <<"]", "]">>
Stripped(x) == <<"(", "(">> \o x \o <<")", ")">>

C9_Pipeline ==
    ipc = "done" =>
        /\ translated =
               Substitute("strip", Substitute("digest", Substitute("em",
                   Substitute("bold", frag))))
        /\ Plain(frag) =>
               /\ process_text(Digest(Bold(frag)))
                      = MD5Hex(<<"<", "b", ">">> \o frag \o <<"<", "/", "b", ">">>)
               /\ process_text(Stripped(Digest(frag))) = RemoveC(MD5Hex(frag))
               /\ process_text(Stripped(<<"*", "c", "*">> \o frag \o <<"*", "c", "*">>))
                      = <<"*", "*">> \o RemoveC(frag) \o <<"*", "*">>
        /\ \A x \in {<<>>, <<"a">>, <<"c">>} :
               /\ frag = Digest(Bold(x)) =>
                      translated = MD5Hex(<<"<", "b", ">">> \o x \o <<"<", "/", "b", ">">>)
               /\ frag = Stripped(Digest(x)) => translated = RemoveC(MD5Hex(x))

\* The fragment translated was (([[]])) and the digest of the empty text holds a 'c'.
C9_Witness ==
    /\ ipc = "done"
    /\ frag = Stripped(Digest(<<>>))
    /\ \E k \in 1..DigestLen : MD5Hex(<<>>)[k] = "c"
    /\ translated # MD5Hex(<<>>)

====
